---------------------------- MODULE Spec2Model ----------------------------
(***************************************************************************)
(* A model of rust_boids: the actor engine (actors.rs), the flocking       *)
(* engine (boids_mgr.rs), the vector helpers (math.rs) and the fixed       *)
(* timestep driver (main.rs, MainState::update).                           *)
(*                                                                         *)
(* Numbers.  The program computes in f32.  The model holds lengths and     *)
(* velocities on a fixed-point grid of 1/Scale world units, times in ticks *)
(* of 1/DESIRED_FPS second (so dt = 1 and the life arithmetic is exact),   *)
(* and angles in steps of dt * PLAYER_TURN_RATE = 0.05 rad.  A result that *)
(* does not fall on the grid is rounded toward zero.  The one value f32    *)
(* has and the grid lacks, NaN (0.0 / 0.0), is carried as a flag on the    *)
(* flocking engine's vectors.                                              *)
(***************************************************************************)
EXTENDS Integers, Sequences, FiniteSets

(***************************************************************************)
(* Program constants                                                       *)
(***************************************************************************)
DESIRED_FPS == 60
Scale == DESIRED_FPS \div 2
SECONDS == 1                               \* 1.0 / DESIRED_FPS, in ticks
SCREEN == 800

PLAYER_LIFE == 1
SHOT_LIFE == 2
ROCK_LIFE == 1
PLAYER_BBOX == 12
ROCK_BBOX == 12
SHOT_BBOX == 6
MAX_ROCK_VEL == 50
SHOT_SPEED == 200
SHOT_ANG_VEL == 2                          \* 0.1 rad, in steps of 0.05 rad
PLAYER_THRUST == 100
PLAYER_TURN_RATE == 3
PLAYER_SHOT_TIME_SHORT == DESIRED_FPS \div 3    \* a third of a second
PLAYER_SHOT_TIME == DESIRED_FPS \div 2     \* 0.5 s, in ticks
MAX_PHYSICS_VEL == 250

ACCELERATION_LIMIT == 60
SPEED_LIMIT == 100
MIN_SPEED_LIMIT == 50
SEPARATION_DISTANCE == 40
COHESION_DISTANCE == 200
ALIGNMENT_DISTANCE == 200
SEPARATION_FORCE_NUM == 203                \* 10.15 = 203 / 20
SEPARATION_FORCE_DEN == 20
COHESION_FORCE_NUM == 1                    \* 0.1 = 1 / 10
COHESION_FORCE_DEN == 10
ALIGNMENT_FORCE_NUM == 1                   \* 0.25 = 1 / 4
ALIGNMENT_FORCE_DEN == 4
ATTRACTOR_RADIUS == 150
ATTRACTOR_FORCE_NUM == 21                  \* 0.525 = 21 / 40
ATTRACTOR_FORCE_DEN == 40
VECTOR_LEN == 2                            \* Vector2::len(): the number of components

(***************************************************************************)
(* Bounds of the model                                                     *)
(***************************************************************************)
MaxWrapPos == 7       \* wrap inputs: coordinates in -MaxWrapPos..MaxWrapPos
MaxWrapBound == 4     \* wrap inputs: bounds in 1..MaxWrapBound
MaxFacing == 2        \* the player's facing stays in -MaxFacing..MaxFacing steps
MaxRocks == 2         \* rocks the engine is constructed with
MaxShots == 2         \* shots a caller of the engine fires
MaxCalls == 4         \* calls a caller of the engine makes
WarmUp == 149         \* thrust updates that caller starts with, when it warms up
NumBoids == 2         \* boids spawned (NUM_BOIDS in the program)
NumAttractors == 1    \* attractors spawned (NUM_ATTRACTORS in the program)
MaxBoidTicks == 3     \* flocking updates of a run
MaxTicks == 192       \* steps of the driver
MaxKeyEvents == 3     \* key events of a run of the driver
MaxSepDist == 7       \* separation inputs: neighbours up to MaxSepDist * SepStep away
KeyPeriod == 72       \* key events are delivered before every KeyPeriod-th step

(***************************************************************************)
(* Fixed-point arithmetic                                                  *)
(***************************************************************************)
Abs(a) == IF a < 0 THEN -a ELSE a

\* a / b rounded toward zero (b > 0)
TruncDiv(a, b) == IF a >= 0 THEN a \div b ELSE -((-a) \div b)

RECURSIVE SqrtSearch(_, _, _)
SqrtSearch(n, lo, hi) ==
    IF lo >= hi THEN lo
    ELSE LET mid == (lo + hi) \div 2
         IN  IF mid * mid >= n THEN SqrtSearch(n, lo, mid)
                               ELSE SqrtSearch(n, mid + 1, hi)

\* sqrt(n), exact on perfect squares and otherwise rounded up, so that a
\* quotient v / sqrt(n) is rounded toward zero
Sqrt(n) == SqrtSearch(n, 0, 46340)

Vec(x, y) == [x |-> x, y |-> y]
VAdd(a, b) == Vec(a.x + b.x, a.y + b.y)
VSub(a, b) == Vec(a.x - b.x, a.y - b.y)
NormSq(v) == v.x * v.x + v.y * v.y

(***************************************************************************)
(* math.rs                                                                 *)
(***************************************************************************)
\* sin and cos of k * 0.05 rad in 1/Unit, rounded toward zero
Unit == 10000
SinTab == <<499, 998, 1494, 1986, 2474>>
CosTab == <<9987, 9950, 9887, 9800, 9689>>
Sin(k) == IF k = 0 THEN 0 ELSE IF k > 0 THEN SinTab[k] ELSE -SinTab[-k]
Cos(k) == IF k = 0 THEN Unit ELSE CosTab[Abs(k)]

vec_from_angle(angle) == Vec(Sin(angle), Cos(angle))

\* one coordinate of the wrap: c > bound / 2 is 2 * c > bound
WrapCoordHalf(c, bound) ==
    IF 2 * c > bound THEN c - bound \div 2
    ELSE IF 2 * c < -bound THEN c + bound \div 2
    ELSE c

WrapCoord(c, bound) ==
    IF 2 * c > bound THEN c - bound
    ELSE IF 2 * c < -bound THEN c + bound
    ELSE c

\* a NaN coordinate fails both comparisons and stays
wrap_actor_position(pos, boundary) ==
    [pos EXCEPT !.x = WrapCoord(pos.x, boundary.x), !.y = WrapCoord(pos.y, boundary.y)]


(***************************************************************************)
(* actors.rs: the actor record and its constructors.  life is held in      *)
(* 1/DESIRED_FPS (a shot's seconds to live, a player's or rock's hit       *)
(* points); updates and clamped are history fields: the number of          *)
(* update_actor_position calls the actor has been through, and whether the *)
(* last one rescaled its velocity.                                         *)
(***************************************************************************)
create_player ==
    [tag |-> "Player", pos |-> Vec(0, 0), facing |-> 0, velocity |-> Vec(0, 0),
     ang_vel |-> 0, bbox_size |-> PLAYER_BBOX * Scale,
     life |-> PLAYER_LIFE * DESIRED_FPS, updates |-> 0, clamped |-> FALSE]

create_rock ==
    [tag |-> "Rock", pos |-> Vec(0, 0), facing |-> 0, velocity |-> Vec(0, 0),
     ang_vel |-> 0, bbox_size |-> ROCK_BBOX * Scale,
     life |-> ROCK_LIFE * DESIRED_FPS, updates |-> 0, clamped |-> FALSE]

create_shot_short ==
    [tag |-> "Shot", pos |-> Vec(0, 0), facing |-> 0, velocity |-> Vec(0, 0),
     ang_vel |-> SHOT_ANG_VEL, bbox_size |-> SHOT_BBOX * Scale,
     life |-> SHOT_LIFE * DESIRED_FPS - 1, updates |-> 0, clamped |-> FALSE]

create_shot ==
    [tag |-> "Shot", pos |-> Vec(0, 0), facing |-> 0, velocity |-> Vec(0, 0),
     ang_vel |-> SHOT_ANG_VEL, bbox_size |-> SHOT_BBOX * Scale,
     life |-> SHOT_LIFE * DESIRED_FPS, updates |-> 0, clamped |-> FALSE]

\* one rock of create_rocks: rand's draws are the arguments
new_rock(pos, velocity) ==
    [create_rock EXCEPT !.pos = pos, !.velocity = velocity]

(***************************************************************************)
(* ActorManager::update                                                    *)
(***************************************************************************)
player_thrust(actor, dt) ==
    LET direction_vector == vec_from_angle(actor.facing)
        dv == Vec(TruncDiv(direction_vector.x * PLAYER_THRUST * Scale * dt,
                           Unit * DESIRED_FPS),
                  TruncDiv(direction_vector.y * PLAYER_THRUST * Scale * dt,
                           Unit * DESIRED_FPS))
    IN  [actor EXCEPT !.velocity = VAdd(actor.velocity, dv)]

\* facing += dt * PLAYER_TURN_RATE * xaxis, in steps of PLAYER_TURN_RATE / DESIRED_FPS rad
player_handle_input(actor, input, dt) ==
    LET turned == [actor EXCEPT !.facing = actor.facing + dt * input.xaxis]
    IN  IF input.yaxis > 0 THEN player_thrust(turned, dt) ELSE turned

\* the clamp of update_actor_position with the test left out
ClampAlways(velocity) ==
    velocity

\* the clamp of update_actor_position
ClampVelocity(velocity) ==
    LET norm_sq == NormSq(velocity)
        max     == MAX_PHYSICS_VEL * Scale
    IN  IF norm_sq > max * max
        THEN Vec(TruncDiv(velocity.x * max, Sqrt(norm_sq)),
                 TruncDiv(velocity.y * max, Sqrt(norm_sq)))
        ELSE velocity

update_actor_position(actor, dt) ==
    LET v  == ClampVelocity(actor.velocity)
        dv == Vec(TruncDiv(v.x * dt, DESIRED_FPS), TruncDiv(v.y * dt, DESIRED_FPS))
    IN  [actor EXCEPT !.velocity = v,
                      !.pos = VAdd(actor.pos, dv),
                      !.facing = actor.facing + actor.ang_vel,
                      !.updates = actor.updates + 1,
                      !.clamped = (v # actor.velocity)]

\* the wrap local to ActorManager::update
wrap_actor_position_local(actor, sx, sy) ==
    [actor EXCEPT !.pos = Vec(WrapCoord(actor.pos.x, sx), WrapCoord(actor.pos.y, sy))]

update_shot(act, seconds, sx, sy) ==
    LET moved == wrap_actor_position_local(update_actor_position(act, seconds), sx, sy)
    IN  [moved EXCEPT !.life = moved.life - seconds]

update_rock(act, seconds, sx, sy) ==
    wrap_actor_position_local(update_actor_position(act, seconds), sx, sy)

\* ActorManager::update on the engine [player, shots, rocks]
ActorUpdate(eng, seconds, input, sx, sy) ==
    LET steered == player_handle_input(eng.player, input, seconds)
    IN  [player |-> wrap_actor_position_local(
                        update_actor_position(steered, seconds), sx, sy),
         shots  |-> [i \in DOMAIN eng.shots |->
                        update_shot(eng.shots[i], seconds, sx, sy)],
         rocks  |-> [i \in DOMAIN eng.rocks |->
                        update_rock(eng.rocks[i], seconds, sx, sy)]]

(***************************************************************************)
(* fire_player_shot_helper, clear_dead_stuff, handle_collisions            *)
(***************************************************************************)
\* the hook with the lines that are commented out in it: a rock is created
when_rocks_refill(eng, new_level) ==
    [eng EXCEPT !.rocks = Append(eng.rocks, new_rock(Vec(537, 7400), Vec(0, 1440)))]

\* when_rocks_empty: its body is commented out
when_rocks_empty(eng, new_level) ==
    eng

fire_player_shot_helper(eng) ==
    LET direction == vec_from_angle(eng.player.facing)
        shot == [create_shot EXCEPT
                    !.pos = eng.player.pos,
                    !.facing = eng.player.facing,
                    !.velocity = Vec(TruncDiv(SHOT_SPEED * Scale * direction.x, Unit),
                                     TruncDiv(SHOT_SPEED * Scale * direction.y, Unit))]
    IN  [eng EXCEPT !.shots = Append(eng.shots, shot)]

\* the shots retained, the rocks left as they are
clear_dead_shots(eng) ==
    [eng EXCEPT !.shots = SelectSeq(eng.shots, LAMBDA s : s.life > 0)]

clear_dead_stuff(eng) ==
    [eng EXCEPT !.shots = SelectSeq(eng.shots, LAMBDA s : s.life > 0),
                !.rocks = SelectSeq(eng.rocks, LAMBDA r : r.life > 0)]

\* the test with <= for <
TouchingOrEqual(a, b) ==
    NormSq(VSub(a.pos, b.pos)) <= (a.bbox_size + b.bbox_size) * (a.bbox_size + b.bbox_size)

\* a.pos - b.pos has norm() < a.bbox_size + b.bbox_size, compared by squares
Touching(a, b) ==
    NormSq(VSub(a.pos, b.pos)) < (a.bbox_size + b.bbox_size) * (a.bbox_size + b.bbox_size)

\* the inner loop of handle_collisions for rock i; hit_pairs logs the pairs counted
RECURSIVE ShotLoop(_, _, _)
ShotLoop(st, i, j) ==
    IF j > Len(st.shots) THEN st
    ELSE IF Touching(st.shots[j], st.rocks[i])
         THEN ShotLoop([st EXCEPT !.shots[j].life = 0,
                                  !.rocks[i].life = 0,
                                  !.num_hits = st.num_hits + 1,
                                  !.hit_pairs = Append(st.hit_pairs, <<i, j>>)],
                       i, j + 1)
         ELSE ShotLoop(st, i, j + 1)

RECURSIVE RockLoop(_, _)
RockLoop(st, i) ==
    IF i > Len(st.rocks) THEN st
    ELSE LET hurt == IF Touching(st.rocks[i], st.player)
                     THEN [st EXCEPT !.player.life = 0]
                     ELSE st
         IN  RockLoop(ShotLoop(hurt, i, 1), i + 1)

\* handle_collisions: the engine afterwards, with num_hits and the log
handle_collisions(eng) ==
    RockLoop([player |-> eng.player, shots |-> eng.shots, rocks |-> eng.rocks,
              num_hits |-> 0, hit_pairs |-> <<>>], 1)


(***************************************************************************)
(* boids_mgr.rs.  A vector of the flocking engine is [x, y, nan]: nan      *)
(* stands for both components being NaN, which is how 0.0 / 0.0 enters     *)
(* (a division by a zero length divides both components) and how it        *)
(* spreads (component by component).  A comparison with NaN is false.      *)
(***************************************************************************)
BVec(x, y) == [x |-> x, y |-> y, nan |-> FALSE]
NaNVec == [x |-> 0, y |-> 0, nan |-> TRUE]
BAdd(a, b) == IF a.nan \/ b.nan THEN NaNVec ELSE BVec(a.x + b.x, a.y + b.y)
BSub(a, b) == IF a.nan \/ b.nan THEN NaNVec ELSE BVec(a.x - b.x, a.y - b.y)

\* v.norm() < r and v.norm() > r, compared by squares
NormBelow(v, r) == ~v.nan /\ NormSq(v) < r * r
NormAbove(v, r) == ~v.nan /\ NormSq(v) > r * r

\* v * num / den, the division last as in the program
MulDiv(v, num, den) ==
    IF v.nan THEN NaNVec ELSE BVec(TruncDiv(v.x * num, den), TruncDiv(v.y * num, den))

\* v.normalize() * len, v / v.norm() * len: 0.0 / 0.0 when v is the zero vector
NormalizeTimes(v, len) ==
    IF v.nan \/ NormSq(v) = 0 THEN NaNVec
    ELSE BVec(TruncDiv(v.x * len, Sqrt(NormSq(v))), TruncDiv(v.y * len, Sqrt(NormSq(v))))

\* spawn_attractor
new_attractor(pos) ==
    [position |-> pos, radius |-> ATTRACTOR_RADIUS * Scale,
     force |-> [num |-> ATTRACTOR_FORCE_NUM, den |-> ATTRACTOR_FORCE_DEN]]

\* the attractor loop of boid b: velocity[b] after the attractors target.. are done
RECURSIVE AttractorLoop(_, _, _, _)
AttractorLoop(vel, pos, atts, target) ==
    IF target > Len(atts) THEN vel
    ELSE LET a     == atts[target]
             spare == BSub(pos, a.position)
         IN  IF NormBelow(spare, a.radius)
             THEN LET length == Sqrt(NormSq(spare))
                      delta  == IF length = 0 THEN NaNVec
                                ELSE BVec(TruncDiv(a.force.num * Scale * spare.x,
                                                   a.force.den * length),
                                          TruncDiv(a.force.num * Scale * spare.y,
                                                   a.force.den * length))
                  IN  AttractorLoop(BSub(vel, delta), pos, atts, target + 1)
             ELSE AttractorLoop(vel, pos, atts, target + 1)

\* 1. - (SEPARATION_DISTANCE - dist) / SEPARATION_DISTANCE, times spare
Separation(spare) ==
    LET sep  == SEPARATION_DISTANCE * Scale
        dist == Sqrt(NormSq(spare))
    IN  BVec(TruncDiv(spare.x * (sep - (sep - dist)), sep),
             TruncDiv(spare.y * (sep - (sep - dist)), sep))

\* the neighbour loop of boid b over target..: f holds s_force, c_force, a_force
\* and reads, the history of the velocities read: <<b, target, velocity>>
RECURSIVE NeighbourLoop(_, _, _, _, _)
NeighbourLoop(f, b, target, pos, vel) ==
    IF target > Len(pos) THEN f
    ELSE IF b = target THEN NeighbourLoop(f, b, target + 1, pos, vel)
    ELSE LET spare == BSub(pos[b], pos[target])
             sep   == SEPARATION_DISTANCE * Scale
             coh   == COHESION_DISTANCE * Scale
             ali   == ALIGNMENT_DISTANCE * Scale
             g ==
               IF NormBelow(spare, sep)
               THEN [f EXCEPT !.s_force = BAdd(f.s_force, Separation(spare))]
               ELSE [f EXCEPT
                       !.c_force = IF NormBelow(spare, coh)
                                   THEN BAdd(f.c_force, spare) ELSE f.c_force,
                       !.a_force = IF NormBelow(spare, ali)
                                   THEN BAdd(f.a_force, vel[target]) ELSE f.a_force,
                       !.reads   = IF NormBelow(spare, ali)
                                   THEN f.reads \cup {<<b, target, vel[target]>>}
                                   ELSE f.reads]
         IN  NeighbourLoop(g, b, target + 1, pos, vel)

\* the contributions of the three sums
sep_vector(s_force) ==
    MulDiv(s_force, SEPARATION_FORCE_NUM, SEPARATION_FORCE_DEN * VECTOR_LEN)

coh_vector(c_force) ==
    MulDiv(BSub(BVec(0, 0), c_force), COHESION_FORCE_NUM, COHESION_FORCE_DEN * VECTOR_LEN)

ali_vector(a_force) ==
    IF a_force.nan THEN NaNVec
    ELSE BVec(TruncDiv(a_force.x * COHESION_FORCE_NUM, COHESION_FORCE_DEN * VECTOR_LEN),
              TruncDiv(a_force.y * ALIGNMENT_FORCE_NUM, ALIGNMENT_FORCE_DEN * VECTOR_LEN))

\* the first loop of update from boid b on, in place: bs is
\* [position, velocity, acceleration, attractors, reads, forces]; forces is the
\* history of the sums and of the contributions made of them, boid by boid
RECURSIVE ForceLoop(_, _)
ForceLoop(bs, b) ==
    IF b > Len(bs.position) THEN bs
    ELSE LET vb  == AttractorLoop(bs.velocity[b], bs.position[b], bs.attractors, 1)
             vel == [bs.velocity EXCEPT ![b] = vb]
             f   == NeighbourLoop([s_force |-> BVec(0, 0), c_force |-> BVec(0, 0),
                                   a_force |-> BVec(0, 0), reads |-> bs.reads],
                                  b, 1, bs.position, vel)
             acc == BAdd(BAdd(BAdd(bs.acceleration[b], sep_vector(f.s_force)),
                              coh_vector(f.c_force)),
                         ali_vector(f.a_force))
         IN  ForceLoop([bs EXCEPT !.velocity = vel,
                                  !.acceleration[b] = acc,
                                  !.reads = f.reads,
                                  !.forces[b] =
                                      [s_force |-> f.s_force, c_force |-> f.c_force,
                                       a_force |-> f.a_force,
                                       sep_vector |-> sep_vector(f.s_force),
                                       coh_vector |-> coh_vector(f.c_force),
                                       ali_vector |-> ali_vector(f.a_force)]], b + 1)

ClampAcceleration(a) ==
    IF NormAbove(a, ACCELERATION_LIMIT * Scale)
    THEN NormalizeTimes(a, ACCELERATION_LIMIT * Scale)
    ELSE a

ClampSpeed(v) ==
    LET w == IF NormAbove(v, SPEED_LIMIT * Scale)
             THEN NormalizeTimes(v, SPEED_LIMIT * Scale)
             ELSE v
    IN  IF NormBelow(w, MIN_SPEED_LIMIT * Scale)
        THEN NormalizeTimes(w, MIN_SPEED_LIMIT * Scale)
        ELSE w

\* the second loop of update, boid i
Integrate(bs, i, dt, screen_size) ==
    LET a == ClampAcceleration(bs.acceleration[i])
        v == ClampSpeed(BAdd(bs.velocity[i], MulDiv(a, dt, DESIRED_FPS)))
        p == wrap_actor_position(BAdd(bs.position[i], MulDiv(v, dt, DESIRED_FPS)),
                                 screen_size)
    IN  [acceleration |-> a, velocity |-> v, position |-> p]

\* BoidComponent::update
BoidUpdate(bs, dt, screen_size) ==
    LET forced == ForceLoop([bs EXCEPT !.reads = {}], 1)
        done   == [i \in DOMAIN forced.position |-> Integrate(forced, i, dt, screen_size)]
    IN  [forced EXCEPT
           !.acceleration = [i \in DOMAIN done |-> done[i].acceleration],
           !.velocity     = [i \in DOMAIN done |-> done[i].velocity],
           !.position     = [i \in DOMAIN done |-> done[i].position]]

(***************************************************************************)
(* State                                                                   *)
(***************************************************************************)
VARIABLES
    player, shots, rocks,        \* ActorManager
    num_hits,                    \* what the last handle_collisions returned
    hit_pairs,                   \* history: the <<rock, shot>> pairs it counted
    pre_collide,                 \* history: the engine when it was called
    last_op, prev_op,            \* history: the last two calls on the engine
    calls,                       \* history: the number of calls made
    warm,                        \* the thrust updates the caller starts with
    wrap_in, wrap_out, wrap_fn,  \* a wrap's argument, its result, which wrap ran
    sep_in, sep_out, sep_fn,     \* two neighbours' offsets, what the separation
                                 \* step adds for each, whether it ran
    position, velocity, acceleration, attractors,    \* BoidComponent
    reads,                       \* history: the velocities the last update's
                                 \* neighbour loops read, <<reader, read, velocity>>
    forces,                      \* history: each boid's three sums in the last
                                 \* update and the contributions made of them
    prev_velocity,               \* history: the velocities when it was called
    boid_ticks,                  \* history: the number of flocking updates
    input, player_shot_timeout, level, score,        \* MainState
    quit,                        \* ctx.quit() was called
    ticks, key_events,           \* history: the steps and key events so far
    fired_at                     \* history: the steps in which a shot was fired

actor_vars == <<player, shots, rocks, num_hits, hit_pairs, pre_collide,
                last_op, prev_op, calls, warm>>
wrap_vars == <<wrap_in, wrap_out, wrap_fn>>
sep_vars == <<sep_in, sep_out, sep_fn>>
boid_vars == <<position, velocity, acceleration, attractors, reads, forces,
               prev_velocity, boid_ticks>>
main_vars == <<input, player_shot_timeout, level, score, quit, ticks, key_events,
               fired_at>>
vars == <<actor_vars, wrap_vars, sep_vars, boid_vars, main_vars>>

Boids == [position |-> position, velocity |-> velocity, acceleration |-> acceleration,
          attractors |-> attractors, reads |-> reads, forces |-> forces]

Engine == [player |-> player, shots |-> shots, rocks |-> rocks]

NoInput == [xaxis |-> 0, yaxis |-> 0, fire |-> FALSE]       \* InputState::default
Inputs == [xaxis : {-1, 0, 1}, yaxis : {0, 1}, fire : {FALSE}]
Thrust == [xaxis |-> 0, yaxis |-> 1, fire |-> FALSE]

\* create_rocks' draws: a position 100..250 from the player, a velocity below
\* MAX_ROCK_VEL.  The first two drift to the player's place after WarmUp updates.
RockDraws ==
    << new_rock(Vec(0, 7068), Vec(0, 1080)),
       new_rock(Vec(93, 6568), Vec(180, 1080)),
       new_rock(Vec(3000, 0), Vec(0, 0)) >>

\* the increasing index sequences of at most n draws
RockChoices(n) ==
    { q \in UNION { [1..k -> 1..Len(RockDraws)] : k \in 0..n } :
          \A i \in DOMAIN q : \A j \in DOMAIN q : i < j => q[i] < q[j] }

\* ActorManager::new, called with create_rocks(num, ...) for the rocks drawn
ActorManager_new(rs) ==
    [player |-> create_player, shots |-> <<>>, rocks |-> rs]

WrapIdle ==
    /\ wrap_in = [pos |-> Vec(0, 0), boundary |-> Vec(0, 0)]
    /\ wrap_out = Vec(0, 0)
    /\ wrap_fn = "none"

SepIdle ==
    /\ sep_in = <<BVec(0, 0), BVec(0, 0)>>
    /\ sep_out = <<BVec(0, 0), BVec(0, 0)>>
    /\ sep_fn = "none"

ActorIdle ==
    /\ player = create_player
    /\ shots = <<>>
    /\ rocks = <<>>
    /\ num_hits = 0
    /\ hit_pairs = <<>>
    /\ pre_collide = ActorManager_new(<<>>)
    /\ last_op = "new"
    /\ prev_op = "new"
    /\ calls = 0
    /\ warm = 0

\* no sum taken yet
NoForces ==
    [s_force |-> BVec(0, 0), c_force |-> BVec(0, 0), a_force |-> BVec(0, 0),
     sep_vector |-> BVec(0, 0), coh_vector |-> BVec(0, 0), ali_vector |-> BVec(0, 0)]

BoidIdle ==
    /\ position = <<>>
    /\ velocity = <<>>
    /\ acceleration = <<>>
    /\ attractors = <<>>
    /\ reads = {}
    /\ forces = <<>>
    /\ prev_velocity = <<>>
    /\ boid_ticks = 0

MainIdle ==
    /\ input = NoInput
    /\ player_shot_timeout = 0
    /\ level = 0
    /\ score = 0
    /\ quit = FALSE
    /\ ticks = 0
    /\ key_events = 0
    /\ fired_at = <<>>

(***************************************************************************)
(* The engine under any caller: Spec                                       *)
(***************************************************************************)
Init ==
    /\ \E q \in RockChoices(MaxRocks) :
          LET eng == ActorManager_new([i \in DOMAIN q |-> RockDraws[q[i]]])
          IN  /\ player = eng.player
              /\ shots = eng.shots
              /\ rocks = eng.rocks
              /\ pre_collide = eng
    /\ warm \in {0, WarmUp}
    /\ num_hits = 0
    /\ hit_pairs = <<>>
    /\ last_op = "new"
    /\ prev_op = "new"
    /\ calls = 0
    /\ WrapIdle
    /\ SepIdle
    /\ BoidIdle
    /\ MainIdle

\* the caller warms the engine up with thrust updates, then calls as it likes
Called(op) ==
    /\ calls < warm + MaxCalls
    /\ calls < warm => op = "warm"
    /\ UNCHANGED warm
    /\ calls' = calls + 1
    /\ prev_op' = last_op
    /\ last_op' = IF op = "warm" THEN "update" ELSE op

SetEngine(eng) ==
    /\ player' = eng.player
    /\ shots' = eng.shots
    /\ rocks' = eng.rocks

FirePlayerShot ==
    /\ Len(shots) < MaxShots
    /\ Called("fire")
    /\ SetEngine(fire_player_shot_helper(Engine))
    /\ UNCHANGED <<num_hits, hit_pairs, pre_collide, wrap_vars, sep_vars, boid_vars, main_vars>>

Update ==
    \E inp \in Inputs :
        /\ Abs(player.facing + inp.xaxis) <= MaxFacing
        /\ Called(IF calls < warm /\ inp = Thrust THEN "warm" ELSE "update")
        /\ SetEngine(ActorUpdate(Engine, SECONDS, inp, SCREEN * Scale, SCREEN * Scale))
        /\ UNCHANGED <<num_hits, hit_pairs, pre_collide, wrap_vars, sep_vars, boid_vars, main_vars>>

HandleCollisions ==
    LET st == handle_collisions(Engine)
    IN  /\ Called("collide")
        /\ SetEngine(st)
        /\ num_hits' = st.num_hits
        /\ hit_pairs' = st.hit_pairs
        /\ pre_collide' = Engine
        /\ UNCHANGED <<wrap_vars, sep_vars, boid_vars, main_vars>>

ClearDeadStuff ==
    /\ Called("clear")
    /\ SetEngine(clear_dead_stuff(Engine))
    /\ UNCHANGED <<num_hits, hit_pairs, pre_collide, wrap_vars, sep_vars, boid_vars, main_vars>>

Next == FirePlayerShot \/ Update \/ HandleCollisions \/ ClearDeadStuff

Spec == Init /\ [][Next]_vars

(***************************************************************************)
(* The wraps as functions of their arguments: WrapSpec                     *)
(***************************************************************************)
WrapInit ==
    /\ wrap_in \in [pos : [x : -MaxWrapPos..MaxWrapPos, y : -MaxWrapPos..MaxWrapPos],
                    boundary : [x : 1..MaxWrapBound, y : 1..MaxWrapBound]]
    /\ wrap_out = wrap_in.pos
    /\ wrap_fn = "none"
    /\ SepIdle
    /\ ActorIdle
    /\ BoidIdle
    /\ MainIdle

WrapMath ==
    /\ wrap_fn = "none"
    /\ wrap_out' = wrap_actor_position(wrap_in.pos, wrap_in.boundary)
    /\ wrap_fn' = "math"
    /\ UNCHANGED <<wrap_in, sep_vars, actor_vars, boid_vars, main_vars>>

WrapLocal ==
    /\ wrap_fn = "none"
    /\ wrap_out' = wrap_actor_position_local([create_player EXCEPT !.pos = wrap_in.pos],
                                             wrap_in.boundary.x, wrap_in.boundary.y).pos
    /\ wrap_fn' = "local"
    /\ UNCHANGED <<wrap_in, sep_vars, actor_vars, boid_vars, main_vars>>

WrapNext == WrapMath \/ WrapLocal

WrapSpec == WrapInit /\ [][WrapNext]_vars


(***************************************************************************)
(* The flocking engine: BoidSpec.  rand's draws are taken on one axis of   *)
(* the plane, where every length the update takes is a whole number of     *)
(* grid steps and the fixed-point square root is exact.                    *)
(***************************************************************************)
PosDraws == {0, 600, 1500, 2850}          \* 100 * rand, in [0, 100)
VelDraws == {-4500, 0, 2400}              \* 400 * rand - 200, in [-200, 200)
AttractorDraws == {-9000, 0, 4500}        \* width * rand - width / 2

OnAxis(axis, c) == IF axis = "x" THEN BVec(c, 0) ELSE BVec(0, c)

\* BoidComponent::new and init: spawn_random and spawn_attractor for each draw
BoidInitOn(axis, ps, vs, as) ==
    /\ position = [i \in DOMAIN ps |-> OnAxis(axis, ps[i])]
    /\ velocity = [i \in DOMAIN vs |-> OnAxis(axis, vs[i])]
    /\ acceleration = [i \in DOMAIN ps |-> BVec(0, 0)]
    /\ attractors = [i \in DOMAIN as |-> new_attractor(OnAxis(axis, as[i]))]
    /\ reads = {}
    /\ forces = [i \in DOMAIN ps |-> NoForces]
    /\ prev_velocity = velocity
    /\ boid_ticks = 0

BoidInit ==
    /\ \E axis \in {"x", "y"} :
       \E ps \in [1..NumBoids -> PosDraws] :
       \E vs \in [1..NumBoids -> VelDraws] :
       \E as \in [1..NumAttractors -> AttractorDraws] :
          BoidInitOn(axis, ps, vs, as)
    /\ ActorIdle
    /\ WrapIdle
    /\ SepIdle
    /\ MainIdle

SetBoids(bs) ==
    /\ position' = bs.position
    /\ velocity' = bs.velocity
    /\ acceleration' = bs.acceleration
    /\ reads' = bs.reads
    /\ forces' = bs.forces
    /\ prev_velocity' = velocity
    /\ boid_ticks' = boid_ticks + 1
    /\ UNCHANGED attractors

BoidTick ==
    /\ boid_ticks < MaxBoidTicks
    /\ SetBoids(BoidUpdate(Boids, SECONDS, Vec(SCREEN * Scale, SCREEN * Scale)))
    /\ UNCHANGED <<actor_vars, wrap_vars, sep_vars, main_vars>>

BoidNext == BoidTick

BoidSpec == BoidInit /\ [][BoidNext]_vars

\* the draws that put no boid on an attractor or on another boid and give no
\* boid the velocity 0: the flocks in which no length the update divides by is 0
BoidPlainInit ==
    /\ BoidInit
    /\ \A b \in DOMAIN position :
          /\ velocity[b] # BVec(0, 0)
          /\ \A a \in DOMAIN attractors : position[b] # attractors[a].position
          /\ \A t \in DOMAIN position : t # b => position[t] # position[b]

BoidPlainSpec == BoidPlainInit /\ [][BoidNext]_vars

(***************************************************************************)
(* The separation step of the neighbour loop as a function of two          *)
(* neighbours' offsets: SepSpec                                            *)
(***************************************************************************)
SepStep == (SEPARATION_DISTANCE * Scale) \div 8

\* position[b] - position[target] for two targets on the axes, the first one
\* nearer than the second
SepInit ==
    /\ \E axes \in [1..2 -> {"x", "y"}] :
       \E c \in [1..2 -> { k * SepStep : k \in -MaxSepDist..MaxSepDist } \ {0}] :
          /\ Abs(c[1]) < Abs(c[2])
          /\ sep_in = <<OnAxis(axes[1], c[1]), OnAxis(axes[2], c[2])>>
    /\ sep_out = <<BVec(0, 0), BVec(0, 0)>>
    /\ sep_fn = "none"
    /\ ActorIdle
    /\ WrapIdle
    /\ BoidIdle
    /\ MainIdle

\* the separation branch of the neighbour loop for both targets
SepScan ==
    /\ sep_fn = "none"
    /\ \A i \in 1..2 : NormBelow(sep_in[i], SEPARATION_DISTANCE * Scale)
    /\ sep_out' = [i \in 1..2 |-> Separation(sep_in[i])]
    /\ sep_fn' = "scan"
    /\ UNCHANGED <<sep_in, actor_vars, wrap_vars, boid_vars, main_vars>>

SepNext == SepScan

SepSpec == SepInit /\ [][SepNext]_vars

(***************************************************************************)
(* The program: DriverSpec.  MainState::new, the key handlers and the body *)
(* of MainState::update's loop.  ActorManager::new asks create_rocks for 0 *)
(* rocks; the model also constructs the engine with one.                   *)
(***************************************************************************)
\* create_rocks' draws: none, or a rock that drifts up beside the place where a
\* shot fired up from the origin in step KeyPeriod takes its last update, or
\* one that meets that shot an update earlier
DriverRocks == { <<>>, <<new_rock(Vec(537, 7400), Vec(0, 1440))>>,
                 <<new_rock(Vec(537, 7352), Vec(0, 1440))>> }

\* the flock the driver runs: spawn_random's and spawn_attractor's draws
DriverInit ==
    /\ \E rs \in DriverRocks :
          /\ player = create_player
          /\ shots = <<>>
          /\ rocks = rs
          /\ pre_collide = ActorManager_new(rs)
    /\ num_hits = 0
    /\ hit_pairs = <<>>
    /\ last_op = "new"
    /\ prev_op = "new"
    /\ calls = 0
    /\ warm = 0
    /\ BoidInitOn("x", [i \in 1..NumBoids |-> 600 * i], [i \in 1..NumBoids |-> 2400],
                  [i \in 1..NumAttractors |-> 4500 * i])
    /\ MainIdle
    /\ WrapIdle
    /\ SepIdle

\* MainState::new as shipped: ActorManager::new asks create_rocks for 0 rocks
ShippedInit ==
    /\ DriverInit
    /\ rocks = <<>>

Keys == {"Up", "Left", "Right", "Space", "Escape", "Other"}

\* the event loop hands key events over between two steps
KeysDelivered ==
    /\ key_events < MaxKeyEvents
    /\ ticks % KeyPeriod = KeyPeriod - 1
    /\ key_events' = key_events + 1

key_down_event(keycode) ==
    /\ KeysDelivered
    /\ input' = CASE keycode = "Up"    -> [input EXCEPT !.yaxis = 1]
                  [] keycode = "Left"  -> [input EXCEPT !.xaxis = -1]
                  [] keycode = "Right" -> [input EXCEPT !.xaxis = 1]
                  [] keycode = "Space" -> [input EXCEPT !.fire = TRUE]
                  [] OTHER             -> input
    /\ quit' = (quit \/ keycode = "Escape")
    /\ UNCHANGED <<actor_vars, wrap_vars, sep_vars, boid_vars, player_shot_timeout, level,
                   score, ticks, fired_at>>

key_up_event(keycode) ==
    /\ KeysDelivered
    /\ input' = CASE keycode = "Up"    -> [input EXCEPT !.yaxis = 0]
                  [] keycode \in {"Left", "Right"} -> [input EXCEPT !.xaxis = 0]
                  [] keycode = "Space" -> [input EXCEPT !.fire = FALSE]
                  [] OTHER             -> input
    /\ UNCHANGED <<actor_vars, wrap_vars, sep_vars, boid_vars, player_shot_timeout, level,
                   score, quit, ticks, fired_at>>

KeyDown == \E k \in Keys : key_down_event(k)
KeyUp == \E k \in Keys : key_up_event(k)

\* clear_dead_stuff, then handle_collisions
ReclaimAndResolve(moved) ==
    LET st == handle_collisions(clear_dead_stuff(moved))
    IN  [st |-> st,
         cleared |-> [player |-> st.player, shots |-> st.shots, rocks |-> st.rocks]]

\* handle_collisions, then clear_dead_stuff: st is what handle_collisions
\* returned, cleared the engine afterwards
ResolveAndReclaim(moved) ==
    LET st == handle_collisions(moved)
    IN  [st |-> st,
         cleared |-> clear_dead_stuff([player |-> st.player, shots |-> st.shots,
                                       rocks |-> st.rocks])]

\* one pass of the loop of MainState::update
Tick ==
    LET timeout == player_shot_timeout - SECONDS
        fires   == input.fire /\ timeout < 0
        fired   == IF fires THEN fire_player_shot_helper(Engine) ELSE Engine
        moved   == ActorUpdate(fired, SECONDS, input, SCREEN * Scale, SCREEN * Scale)
        st      == ResolveAndReclaim(moved).st
        reclaimed == ResolveAndReclaim(moved).cleared
        cleared == IF Len(reclaimed.rocks) = 0
                   THEN when_rocks_empty(reclaimed, level + 1 + 5)
                   ELSE reclaimed
    IN  /\ ~quit
        /\ ticks < MaxTicks
        /\ Abs(player.facing + input.xaxis) <= MaxFacing
        /\ ticks' = ticks + 1
        /\ player_shot_timeout' = IF fires THEN PLAYER_SHOT_TIME ELSE timeout
        /\ fired_at' = IF fires THEN Append(fired_at, ticks + 1) ELSE fired_at
        /\ SetEngine(cleared)
        /\ num_hits' = st.num_hits
        /\ hit_pairs' = st.hit_pairs
        /\ pre_collide' = moved
        /\ score' = IF st.num_hits > 0 THEN score + st.num_hits ELSE score
        /\ level' = IF Len(reclaimed.rocks) = 0 THEN level + 1 ELSE level
        /\ quit' = (cleared.player.life <= 0)
        /\ SetBoids(BoidUpdate(Boids, SECONDS, Vec(SCREEN * Scale, SCREEN * Scale)))
        /\ UNCHANGED <<last_op, prev_op, calls, warm, wrap_vars, sep_vars, input, key_events>>

DriverNext == Tick \/ KeyDown \/ KeyUp

DriverSpec == DriverInit /\ [][DriverNext]_vars

ShippedSpec == ShippedInit /\ [][DriverNext]_vars

(***************************************************************************)
(* Claims on the engine (Spec)                                             *)
(***************************************************************************)
Actors == {player} \cup {shots[i] : i \in DOMAIN shots} \cup {rocks[i] : i \in DOMAIN rocks}

\* the <<rock, shot>> index pairs of eng whose centres are closer than their radii
ClosePairs(eng) ==
    { p \in (DOMAIN eng.rocks) \X (DOMAIN eng.shots) :
        LET r == eng.rocks[p[1]]
            t == eng.shots[p[2]]
            dx == t.pos.x - r.pos.x
            dy == t.pos.y - r.pos.y
            reach == t.bbox_size + r.bbox_size
        IN  dx * dx + dy * dy < reach * reach }

\* C1: a handle_collisions that directly follows a handle_collisions reports
\* no hit.
C1_SecondCallReportsNone ==
    (last_op = "collide" /\ prev_op = "collide") => num_hits = 0

\* C3: handle_collisions returns the number of (rock, shot) pairs whose centres
\* were closer than the sum of their radii when it was called, and leaves every
\* rock and every shot of such a pair with life 0.
C3_HitCountIsClosePairs ==
    last_op = "collide" =>
        /\ num_hits = Cardinality(ClosePairs(pre_collide))
        /\ \A p \in ClosePairs(pre_collide) :
              rocks[p[1]].life = 0 /\ shots[p[2]].life = 0

\* C3's case: a call that counted two pairs and left a third pair uncounted
C3_Witness ==
    /\ last_op = "collide"
    /\ num_hits = 2
    /\ Len(rocks) * Len(shots) > 2

\* C8: no actor is faster than MAX_PHYSICS_VEL, in any state a caller of
\* fire_player_shot_helper, update, handle_collisions and clear_dead_stuff reaches.
C8_ActorSpeedCapped ==
    \A a \in Actors :
        NormSq(a.velocity) <= (MAX_PHYSICS_VEL * Scale) * (MAX_PHYSICS_VEL * Scale)

\* C8's case: the last update rescaled a player velocity that is off the axes
C8_Witness ==
    /\ last_op = "update"
    /\ player.clamped
    /\ player.velocity.x # 0
    /\ player.velocity.y # 0

(***************************************************************************)
(* Claims on the wraps (WrapSpec)                                          *)
(***************************************************************************)
InRange(c, bound) == 2 * c <= bound /\ 2 * c >= -bound

\* C5 as stated: whatever the position and the bounds, a wrapped coordinate
\* lies in [-bounds/2, bounds/2].
C5_WrappedInRangeAlways ==
    wrap_fn # "none" =>
        /\ InRange(wrap_out.x, wrap_in.boundary.x)
        /\ InRange(wrap_out.y, wrap_in.boundary.y)

\* C5 as amended: a position at most one bounds-width outside the range, that
\* is with coordinates in [-3 bounds/2, 3 bounds/2], is wrapped into
\* [-bounds/2, bounds/2].
C5_WrappedInRangeNear ==
    ( /\ wrap_fn # "none"
      /\ 2 * Abs(wrap_in.pos.x) <= 3 * wrap_in.boundary.x
      /\ 2 * Abs(wrap_in.pos.y) <= 3 * wrap_in.boundary.y )
    => /\ InRange(wrap_out.x, wrap_in.boundary.x)
       /\ InRange(wrap_out.y, wrap_in.boundary.y)

\* C5's case: a position right of the range and below it was wrapped by the
\* engine's own wrap
C5_Witness ==
    /\ wrap_fn = "local"
    /\ 2 * wrap_in.pos.x > wrap_in.boundary.x
    /\ 2 * wrap_in.pos.x <= 3 * wrap_in.boundary.x
    /\ 2 * wrap_in.pos.y < -wrap_in.boundary.y
    /\ 2 * wrap_in.pos.y >= -3 * wrap_in.boundary.y
    /\ wrap_out.x = wrap_in.pos.x - wrap_in.boundary.x
    /\ wrap_out.y = wrap_in.pos.y + wrap_in.boundary.y


(***************************************************************************)
(* Claims on the flocking engine (C4 on BoidPlainSpec, where no length is  *)
(* 0 and a velocity read is a number; C6, C7, C9 on BoidSpec)              *)
(***************************************************************************)
\* C4: every velocity a boid's neighbour loop reads from another boid is that
\* boid's velocity from the end of the previous tick (the positions it reads
\* are: the first loop writes none).
C4_ReadsArePreviousTick ==
    \A r \in reads : r[3] = prev_velocity[r[2]]

\* C6: after every flocking update every boid's speed is in
\* [MIN_SPEED_LIMIT, SPEED_LIMIT].
C6_SpeedInBand ==
    boid_ticks > 0 =>
        \A b \in DOMAIN velocity :
            /\ ~velocity[b].nan
            /\ NormSq(velocity[b]) >= (MIN_SPEED_LIMIT * Scale) * (MIN_SPEED_LIMIT * Scale)
            /\ NormSq(velocity[b]) <= (SPEED_LIMIT * Scale) * (SPEED_LIMIT * Scale)

\* C7: no division by a zero length happens, so no NaN enters a boid's velocity
\* or position.
C7_NoNaN ==
    \A b \in DOMAIN velocity : ~velocity[b].nan /\ ~position[b].nan

\* C9: after every flocking update every boid's stored acceleration has
\* magnitude at most ACCELERATION_LIMIT.
C9_AccelerationCapped ==
    boid_ticks > 0 =>
        \A b \in DOMAIN acceleration :
            /\ ~acceleration[b].nan
            /\ NormSq(acceleration[b])
                  <= (ACCELERATION_LIMIT * Scale) * (ACCELERATION_LIMIT * Scale)

(***************************************************************************)
(* Claims on the program (DriverSpec)                                      *)
(***************************************************************************)
\* the updates a shot lives through: SHOT_LIFE seconds of SECONDS / DESIRED_FPS each
ShotUpdates == (SHOT_LIFE * DESIRED_FPS) \div SECONDS

\* the shots of the engine handed to handle_collisions that it counted in a pair
HitShots == { hit_pairs[k][2] : k \in DOMAIN hit_pairs }

\* C2: in a step of the driver, no pair that handle_collisions counts (and whose
\* rock it sets to life 0) has a shot or a rock whose life was already <= 0
\* when handle_collisions started.
C2_DeadNeverCollides ==
    \A k \in DOMAIN hit_pairs :
        /\ pre_collide.rocks[hit_pairs[k][1]].life > 0
        /\ pre_collide.shots[hit_pairs[k][2]].life > 0

\* C10: a shot has life > 0 after each of its first 119 updates and life <= 0
\* after its 120th, which is its last: the clear_dead_stuff of the same step
\* removes it, and removes no shot that has life left and was in no collision.
C10_ShotLivesFor120Updates ==
    /\ \A i \in DOMAIN pre_collide.shots :
          LET s == pre_collide.shots[i]
          IN  /\ s.updates <= ShotUpdates
              /\ s.updates < ShotUpdates => s.life > 0
              /\ s.updates = ShotUpdates => s.life <= 0
    /\ \A i \in DOMAIN shots : shots[i].updates < ShotUpdates
    /\ Len(shots) = Cardinality({ i \in DOMAIN pre_collide.shots :
                                     /\ pre_collide.shots[i].updates < ShotUpdates
                                     /\ i \notin HitShots })

\* C10's case: a step in which a shot took its 120th update with no collision
\* and was removed, while a shot on its 89th update stayed
C10_Witness ==
    /\ hit_pairs = <<>>
    /\ \E i \in DOMAIN pre_collide.shots :
          /\ pre_collide.shots[i].updates = ShotUpdates
          /\ pre_collide.shots[i].life = 0
    /\ \E i \in DOMAIN shots : shots[i].updates = ShotUpdates - 31 /\ shots[i].life = 31
    /\ Len(shots) = Len(pre_collide.shots) - 1

(***************************************************************************)
(* Further claims on the engine (Spec)                                     *)
(***************************************************************************)
\* C11: a clear_dead_stuff leaves no shot and no rock with life <= 0 in the
\* engine, whatever the engine held before, and leaves the player as it was.
C11_ClearLeavesNoDead ==
    [][ (last_op' = "clear" /\ calls' = calls + 1) =>
           /\ player' = player
           /\ \A i \in DOMAIN shots' : shots'[i].life > 0
           /\ \A i \in DOMAIN rocks' : rocks'[i].life > 0 ]_vars

\* C11's case: a clear_dead_stuff right after a handle_collisions that killed
\* the player, a rock and a shot: the rock and the shot are gone, the player
\* is there with life 0, and a rock that was not hit is kept
C11_Witness ==
    /\ last_op = "clear"
    /\ prev_op = "collide"
    /\ num_hits > 0
    /\ player.life = 0
    /\ Len(shots) < Len(pre_collide.shots)
    /\ Len(rocks) < Len(pre_collide.rocks)
    /\ Len(rocks) > 0

(***************************************************************************)
(* Further claims on the flocking engine (BoidPlainSpec)                   *)
(***************************************************************************)
\* the three contributions of this tick for every boid: what the first loop of
\* the update adds to an acceleration of 0, from the same reads
TickForces ==
    ForceLoop([Boids EXCEPT !.acceleration = [i \in DOMAIN position |-> BVec(0, 0)],
                            !.reads = {}], 1).acceleration

\* C12: the acceleration a flocking update leaves for boid b is the clamped sum
\* of the three contributions of that tick, whatever acceleration[b] held
\* before the update.
C12_AccelerationRecomputed ==
    [][ boid_ticks' = boid_ticks + 1 =>
           \A b \in DOMAIN acceleration :
               acceleration'[b] = ClampAcceleration(TickForces[b]) ]_vars

\* the sum v normalized and multiplied by the force num / den
NormalizedTimesForce(v, num, den) ==
    BVec(TruncDiv(v.x * num * Scale, den * Sqrt(NormSq(v))),
         TruncDiv(v.y * num * Scale, den * Sqrt(NormSq(v))))

\* C13: in every flocking update, each of boid b's sums that is not the zero
\* vector contributes the normalized sum (negated for cohesion) times that
\* rule's own force: SEPARATION_FORCE, COHESION_FORCE, ALIGNMENT_FORCE.
C13_ContributionsAreNormalized ==
    \A b \in DOMAIN forces :
        LET f == forces[b]
        IN  /\ f.s_force # BVec(0, 0) =>
                  f.sep_vector = NormalizedTimesForce(f.s_force, SEPARATION_FORCE_NUM,
                                                      SEPARATION_FORCE_DEN)
            /\ f.c_force # BVec(0, 0) =>
                  f.coh_vector = NormalizedTimesForce(BSub(BVec(0, 0), f.c_force),
                                                      COHESION_FORCE_NUM, COHESION_FORCE_DEN)
            /\ f.a_force # BVec(0, 0) =>
                  f.ali_vector = NormalizedTimesForce(f.a_force, ALIGNMENT_FORCE_NUM,
                                                      ALIGNMENT_FORCE_DEN)

(***************************************************************************)
(* Claims on the separation step (SepSpec)                                 *)
(***************************************************************************)
\* a vector on an axis: its component along that axis, and its length
Along(v) == v.x + v.y
AxisLen(v) == Abs(v.x) + Abs(v.y)

\* the weight that took the offset spare to added, as a fraction num / den
\* with den > 0: added = spare * num / den
WeightNum(spare, added) == IF Along(spare) < 0 THEN -Along(added) ELSE Along(added)
WeightDen(spare) == AxisLen(spare)

\* C14: of two neighbours inside the separation distance, the nearer one's
\* offset is weighted more than the farther one's.
C14_CloserWeighsMore ==
    sep_fn = "scan" =>
        WeightNum(sep_in[1], sep_out[1]) * WeightDen(sep_in[2])
            > WeightNum(sep_in[2], sep_out[2]) * WeightDen(sep_in[1])

(***************************************************************************)
(* Further claims on the program (DriverSpec)                              *)
(***************************************************************************)
\* the rocks of the engine handed to handle_collisions that it counted in a pair
HitRocks == { hit_pairs[k][1] : k \in DOMAIN hit_pairs }

\* C15: every step runs fire, update, handle_collisions, clear_dead_stuff and
\* the flocking update, in this order.  A shot fired in a step is updated in
\* it; handle_collisions starts on the engine that step's update left, with no
\* rock of life <= 0 in it; what it kills is cleared before the step ends,
\* so before the next handle_collisions; the flocking update runs every step.
C15_StepOrder ==
    /\ pre_collide.player.updates = ticks
    /\ \A i \in DOMAIN pre_collide.shots : pre_collide.shots[i].updates >= 1
    /\ \A i \in DOMAIN pre_collide.rocks :
          pre_collide.rocks[i].life > 0 /\ pre_collide.rocks[i].updates = ticks
    /\ \A i \in DOMAIN rocks : rocks[i].life > 0
    /\ \A i \in DOMAIN shots : shots[i].life > 0
    /\ Len(rocks) = Len(pre_collide.rocks) - Cardinality(HitRocks)
    /\ boid_ticks = ticks

\* C15's case: a step whose handle_collisions counted a shot that had life
\* left against the rock, and whose clear_dead_stuff removed both
C15_Witness ==
    /\ ticks > 0
    /\ hit_pairs = <<<<1, 1>>>>
    /\ pre_collide.shots[1].life > 0
    /\ Len(pre_collide.rocks) = 1
    /\ rocks = <<>>
    /\ Len(shots) = Len(pre_collide.shots) - 1
    /\ boid_ticks = ticks

\* C16: two shots that follow each other are fired at least 31 steps apart, and
\* the engine never holds more than 4 shots, neither between two steps nor
\* within a step.
C16_FireRateBoundsShots ==
    /\ \A i \in DOMAIN fired_at :
          i > 1 => fired_at[i] - fired_at[i - 1] >= (DESIRED_FPS \div 2) + 1
    /\ Len(shots) <= 4
    /\ Len(pre_collide.shots) <= 4

\* C16's case: with the fire key held, the fourth shot was fired exactly 31
\* steps after the third, and the engine holds 4 shots
C16_Witness ==
    /\ input.fire
    /\ Len(fired_at) = 4
    /\ fired_at[4] - fired_at[3] = (DESIRED_FPS \div 2) + 1
    /\ Len(shots) = 4

(***************************************************************************)
(* Claims on the program as shipped (ShippedSpec)                          *)
(***************************************************************************)
\* C17: the engine never holds a rock: every handle_collisions returns 0, the
\* score stays 0, the player keeps the life it was created with, and the
\* level is the number of steps run.
C17_ShippedHasNoRocks ==
    /\ rocks = <<>>
    /\ pre_collide.rocks = <<>>
    /\ num_hits = 0
    /\ hit_pairs = <<>>
    /\ score = 0
    /\ player.life = PLAYER_LIFE * DESIRED_FPS
    /\ level = ticks

\* C17's case: the last step of a run in which shots were fired and the
\* player thrust: handle_collisions ran with shots in the engine
C17_Witness ==
    /\ ticks = MaxTicks
    /\ level = MaxTicks
    /\ Len(pre_collide.shots) > 0
    /\ player.velocity # Vec(0, 0)
    /\ score = 0

=============================================================================
